---- MODULE Spec2Model ----
(***************************************************************************)
(* Two view components of the desktop client:                              *)
(*   app/src/ui/tutorial-panel/tutorial-panel.tsx   TutorialPanel and      *)
(*                                                  TutorialStepInstructions*)
(*   app/src/ui/welcome/usage-opt-out.tsx           UsageOptOut            *)
(* Each handler of a component is one action.  The calls a handler makes   *)
(* to its collaborators (the dispatcher, the advance and done callbacks)   *)
(* are appended to `calls`, the record a test double would keep.           *)
(* `lastEvent` and `prevHandler` record which handler ran last, with its   *)
(* arguments and the props and state it found, and which ran before it.    *)
(***************************************************************************)
EXTENDS Integers, Sequences, FiniteSets

VARIABLES
    currentTutorialStep,      \* TutorialPanel: this.props.currentTutorialStep
    externalEditorLabel,      \* TutorialPanel: this.props.externalEditorLabel
    currentlyOpenSectionId,   \* TutorialPanel: this.state.currentlyOpenSectionId
    optOut,                   \* UsageOptOut: this.props.optOut
    calls,                    \* calls made to the dispatcher and the callbacks
    lastEvent,                \* the handler that ran last
    prevHandler               \* the name of the handler that ran before it

vars == << currentTutorialStep, externalEditorLabel, currentlyOpenSectionId,
           optOut, calls, lastEvent, prevHandler >>

\* Longest record of calls kept for the TutorialPanel's dispatcher.
MaxDispatched == 2
\* Longest record of calls kept for UsageOptOut's collaborators.
MaxCalls == 3

(***************************************************************************)
(* models/tutorial-step (imported at tutorial-panel.tsx:9-13)              *)
(***************************************************************************)

\* The canonical progression sequence of the six tutorial steps.
orderedTutorialSteps ==
    << "PickEditor", "CreateBranch", "EditFile",
       "MakeCommit", "PushBranch", "OpenPullRequest" >>

\* The values a currentTutorialStep or a sectionId can take.
ValidTutorialStep == { orderedTutorialSteps[i] : i \in 1..Len(orderedTutorialSteps) }

\* Array.prototype.indexOf: the first 0-based position of x in arr, -1 if absent.
indexOf(arr, x) ==
    IF \E i \in 1..Len(arr) : arr[i] = x
    THEN (CHOOSE i \in 1..Len(arr) :
              arr[i] = x /\ \A j \in 1..(i - 1) : arr[j] # x) - 1
    ELSE -1

\* An absent optional prop.
undefined == "undefined"

\* The values of the optional externalEditorLabel prop.
EditorLabels == { undefined, "Atom" }

\* this.props.repository: the tutorial repository, the same throughout.
repository == [ path |-> "/tutorial" ]

\* path.join of a directory and a file name.
join(dir, file) == dir \o "/" \o file

(***************************************************************************)
(* TutorialPanel                                                           *)
(***************************************************************************)

isStepComplete_Inclusive(step) ==
    indexOf(orderedTutorialSteps, step) <=
        indexOf(orderedTutorialSteps, currentTutorialStep)

isStepComplete(step) ==
    indexOf(orderedTutorialSteps, step) <
        indexOf(orderedTutorialSteps, currentTutorialStep)

isStepNextTodo_NotComplete(step) ==
    ~ isStepComplete(step)

isStepNextTodo(step) ==
    step = currentTutorialStep

\* The skipLinkButton prop TutorialPanel.render gives each step: the handler
\* of its SkipLinkButton, or undefined.
skipLinkButton(sectionId) ==
    CASE sectionId = "PickEditor"      -> "skipEditorInstall"
      [] sectionId = "OpenPullRequest" -> "skipCreatePR"
      [] OTHER                         -> undefined

\* this.setState({ currentlyOpenSectionId: id }): the state it leaves.
onStepSummaryClick(id) ==
    id

\* componentWillReceiveProps, with the old step kept in place of the new one.
componentWillReceiveProps_OldStep(nextStep, nextLabel) ==
    /\ currentlyOpenSectionId' =
           IF currentTutorialStep # nextStep
           THEN currentTutorialStep
           ELSE currentlyOpenSectionId
    /\ currentTutorialStep' = nextStep
    /\ externalEditorLabel' = nextLabel

\* componentWillReceiveProps, resetting the expanded step on every update.
componentWillReceiveProps_NoGuard(nextStep, nextLabel) ==
    /\ currentlyOpenSectionId' = nextStep
    /\ currentTutorialStep' = nextStep
    /\ externalEditorLabel' = nextLabel

\* The lifecycle method, then React's replacement of this.props by nextProps.
componentWillReceiveProps(nextStep, nextLabel) ==
    /\ currentlyOpenSectionId' =
           IF currentTutorialStep # nextStep
           THEN nextStep
           ELSE currentlyOpenSectionId
    /\ currentTutorialStep' = nextStep
    /\ externalEditorLabel' = nextLabel

\* The dispatcher calls of TutorialPanel's four handlers: the record of calls
\* each leaves.
skipEditorInstall(log) ==
    Append(log, [ fn |-> "skipPickEditorTutorialStep", args |-> << repository >> ])

skipCreatePR(log) ==
    Append(log, [ fn |-> "skipCreatePullRequestTutorialStep",
                  args |-> << repository >> ])

openTutorialFileInEditor(log) ==
    Append(log, [ fn |-> "openInExternalEditor",
                  args |-> << join(repository.path, "README.md") >> ])

openPullRequest(log) ==
    Append(log, [ fn |-> "createPullRequest", args |-> << repository >> ])

\* The handler a step's SkipLinkButton was given as onClick.
skipLinkOnClick(sectionId, log) ==
    CASE skipLinkButton(sectionId) = "skipEditorInstall" -> skipEditorInstall(log)
      [] skipLinkButton(sectionId) = "skipCreatePR"      -> skipCreatePR(log)
      [] OTHER                                           -> log

\* The "I have an editor" link of the PickEditor step is rendered.
showIHaveAnEditor_Always ==
    TRUE

showIHaveAnEditor ==
    ~ isStepComplete("PickEditor")

\* The "Open editor" button of the EditFile step is rendered.
showOpenEditor ==
    externalEditorLabel # undefined

(***************************************************************************)
(* TutorialStepInstructions                                                *)
(***************************************************************************)

detailsOpen_OrNextTodo(sectionId) ==
    sectionId = currentlyOpenSectionId \/ isStepNextTodo(sectionId)

\* The open attribute of the step's details element.
detailsOpen(sectionId) ==
    sectionId = currentlyOpenSectionId

shouldShowSkipLink_WhenOpen(sectionId) ==
    /\ skipLinkButton(sectionId) # undefined
    /\ currentlyOpenSectionId = sectionId

shouldShowSkipLink(sectionId) ==
    /\ skipLinkButton(sectionId) # undefined
    /\ currentlyOpenSectionId = sectionId
    /\ isStepNextTodo(sectionId)

renderTutorialStepIcon_ZeroBased(sectionId) ==
    IF isStepComplete(sectionId)
    THEN [ className |-> "green-circle", stepNumber |-> 0 ]
    ELSE LET stepNumber == indexOf(orderedTutorialSteps, sectionId)
         IN  IF isStepNextTodo(sectionId)
             THEN [ className |-> "blue-circle", stepNumber |-> stepNumber ]
             ELSE [ className |-> "empty-circle", stepNumber |-> stepNumber ]

\* The status icon: its class, and the number it shows (0: a check mark, no number).
renderTutorialStepIcon(sectionId) ==
    IF isStepComplete(sectionId)
    THEN [ className |-> "green-circle", stepNumber |-> 0 ]
    ELSE LET stepNumber == indexOf(orderedTutorialSteps, sectionId) + 1
         IN  IF isStepNextTodo(sectionId)
             THEN [ className |-> "blue-circle", stepNumber |-> stepNumber ]
             ELSE [ className |-> "empty-circle", stepNumber |-> stepNumber ]

\* TutorialStepInstructions.onSummaryClick, which runs once for the details
\* element and once for the li as the click bubbles: the expanded step it leaves.
onSummaryClick(sectionId) ==
    LET afterDetails == onStepSummaryClick(sectionId)
        afterLi == onStepSummaryClick(sectionId)
    IN  afterLi

\* What a handler records of itself: its name, the element clicked, the step
\* it concerns, and the props and state it found.
Event(handler, target, sectionId) ==
    [ handler |-> handler, target |-> target, sectionId |-> sectionId,
      step |-> currentTutorialStep, open |-> currentlyOpenSectionId ]

Record(handler, target, sectionId) ==
    /\ lastEvent' = Event(handler, target, sectionId)
    /\ prevHandler' = lastEvent.handler

(***************************************************************************)
(* The events of the TutorialPanel                                         *)
(***************************************************************************)

\* A property update from the parent.
ReceiveProps ==
    \E nextStep \in ValidTutorialStep, nextLabel \in EditorLabels :
        /\ componentWillReceiveProps(nextStep, nextLabel)
        /\ Record("componentWillReceiveProps", "props", nextStep)
        /\ UNCHANGED << optOut, calls >>

\* A click on a step's summary (always visible).
ClickSummary ==
    \E sectionId \in ValidTutorialStep :
        /\ currentlyOpenSectionId' = onSummaryClick(sectionId)
        /\ Record("onSummaryClick", "summary", sectionId)
        /\ UNCHANGED << currentTutorialStep, externalEditorLabel, optOut, calls >>

\* A click on the Skip link of a step's summary, where it is shown; the click
\* then bubbles to the details element and the li.
ClickSkipLink ==
    \E sectionId \in ValidTutorialStep :
        /\ shouldShowSkipLink(sectionId)
        /\ Len(calls) < MaxDispatched
        /\ calls' = skipLinkOnClick(sectionId, calls)
        /\ currentlyOpenSectionId' = onSummaryClick(sectionId)
        /\ Record(skipLinkButton(sectionId), "SkipLinkButton", sectionId)
        /\ UNCHANGED << currentTutorialStep, externalEditorLabel, optOut >>

\* A click on "I have an editor" in the contents of the PickEditor step, which
\* show while its details element is open.
ClickIHaveAnEditor ==
    /\ detailsOpen("PickEditor")
    /\ showIHaveAnEditor
    /\ Len(calls) < MaxDispatched
    /\ calls' = skipEditorInstall(calls)
    /\ currentlyOpenSectionId' = onSummaryClick("PickEditor")
    /\ Record("skipEditorInstall", "LinkButton", "PickEditor")
    /\ UNCHANGED << currentTutorialStep, externalEditorLabel, optOut >>

\* A click on "Open editor" in the contents of the EditFile step.
ClickOpenEditor ==
    /\ detailsOpen("EditFile")
    /\ showOpenEditor
    /\ Len(calls) < MaxDispatched
    /\ calls' = openTutorialFileInEditor(calls)
    /\ currentlyOpenSectionId' = onSummaryClick("EditFile")
    /\ Record("openTutorialFileInEditor", "Button", "EditFile")
    /\ UNCHANGED << currentTutorialStep, externalEditorLabel, optOut >>

\* A click on "Open pull request" in the contents of the OpenPullRequest step.
ClickOpenPullRequest ==
    /\ detailsOpen("OpenPullRequest")
    /\ Len(calls) < MaxDispatched
    /\ calls' = openPullRequest(calls)
    /\ currentlyOpenSectionId' = onSummaryClick("OpenPullRequest")
    /\ Record("openPullRequest", "Button", "OpenPullRequest")
    /\ UNCHANGED << currentTutorialStep, externalEditorLabel, optOut >>

\* TutorialPanel's constructor, for any props.
Init ==
    /\ currentTutorialStep \in ValidTutorialStep
    /\ externalEditorLabel \in EditorLabels
    /\ currentlyOpenSectionId = currentTutorialStep
    /\ optOut = FALSE
    /\ calls = << >>
    /\ lastEvent = [ handler |-> "constructor", target |-> "props",
                     sectionId |-> currentTutorialStep,
                     step |-> currentTutorialStep, open |-> currentTutorialStep ]
    /\ prevHandler = "none"

Next ==
    \/ ReceiveProps
    \/ ClickSummary
    \/ ClickSkipLink
    \/ ClickIHaveAnEditor
    \/ ClickOpenEditor
    \/ ClickOpenPullRequest

Spec == Init /\ [][Next]_vars

(***************************************************************************)
(* UsageOptOut                                                             *)
(***************************************************************************)

\* The value prop render gives the Checkbox.
checkboxValue ==
    IF optOut THEN "Off" ELSE "On"

\* lib/checkbox: the input is checked when its value is CheckboxValue.On.
isChecked(value) ==
    value = "On"

\* lib/button: a click submits the enclosing form only for type 'submit'; a
\* Button given no type is rendered with type 'button'.
submitsForm(type) ==
    type = "submit"

onChange_SameValue(checked, log) ==
    LET value == checked
    IN  Append(log, [ fn |-> "setStatsOptOut", args |-> << value >> ])

\* UsageOptOut.onChange for event.currentTarget.checked = checked: the record
\* of calls it leaves.
onChange(checked, log) ==
    LET value == checked
    IN  Append(log, [ fn |-> "setStatsOptOut", args |-> << ~ value >> ])

cancel_AndDone(log) ==
    Append(Append(log, [ fn |-> "advance", args |-> << "ConfigureGit" >> ]),
           [ fn |-> "done", args |-> << >> ])

\* this.props.advance(WelcomeStep.ConfigureGit)
cancel(log) ==
    Append(log, [ fn |-> "advance", args |-> << "ConfigureGit" >> ])

\* this.props.done()
finish(log) ==
    Append(log, [ fn |-> "done", args |-> << >> ])

\* The Form's onSubmit.
onSubmit(log) ==
    finish(log)

OptOutEvent(handler, checked) ==
    [ handler |-> handler, checked |-> checked, optOut |-> optOut ]

RecordOptOut(handler, checked) ==
    /\ lastEvent' = OptOutEvent(handler, checked)
    /\ prevHandler' = lastEvent.handler

TutorialUnchanged ==
    UNCHANGED << currentTutorialStep, externalEditorLabel, currentlyOpenSectionId >>

\* The parent renders the component again with the flag the store now holds.
ReceiveOptOut ==
    \E nextOptOut \in BOOLEAN :
        /\ optOut' = nextOptOut
        /\ RecordOptOut("props", isChecked(checkboxValue))
        /\ UNCHANGED calls
        /\ TutorialUnchanged

\* The user toggles the checkbox: the change event carries the negation of
\* the checked state that was rendered.
ToggleCheckbox ==
    LET checked == ~ isChecked(checkboxValue)
    IN  /\ Len(calls) < MaxCalls
        /\ calls' = onChange(checked, calls)
        /\ RecordOptOut("onChange", checked)
        /\ UNCHANGED optOut
        /\ TutorialUnchanged

\* A click on the Cancel button, which was given onClick and no type.
ClickCancel ==
    /\ Len(calls) < MaxCalls
    /\ calls' = LET afterClick == cancel(calls)
                IN  IF submitsForm(undefined) THEN onSubmit(afterClick)
                                              ELSE afterClick
    /\ RecordOptOut("cancel", isChecked(checkboxValue))
    /\ UNCHANGED optOut
    /\ TutorialUnchanged

\* A click on the Finish button, of type 'submit' and with no onClick.
ClickFinish ==
    /\ Len(calls) < MaxCalls
    /\ calls' = IF submitsForm("submit") THEN onSubmit(calls) ELSE calls
    /\ RecordOptOut("finish", isChecked(checkboxValue))
    /\ UNCHANGED optOut
    /\ TutorialUnchanged

\* UsageOptOut mounted with either value of the flag.
InitOptOut ==
    /\ optOut \in BOOLEAN
    /\ calls = << >>
    /\ lastEvent = [ handler |-> "render", checked |-> ~ optOut, optOut |-> optOut ]
    /\ prevHandler = "none"
    /\ currentTutorialStep = "PickEditor"
    /\ externalEditorLabel = undefined
    /\ currentlyOpenSectionId = "PickEditor"

NextOptOut ==
    \/ ReceiveOptOut
    \/ ToggleCheckbox
    \/ ClickCancel
    \/ ClickFinish

SpecOptOut == InitOptOut /\ [][NextOptOut]_vars

(***************************************************************************)
(* Properties                                                              *)
(***************************************************************************)

\* The 1-based place of a step in the canonical sequence.
Position(step) ==
    CHOOSE i \in 1..Len(orderedTutorialSteps) : orderedTutorialSteps[i] = step

\* The call a step appended to the record of calls, when it appended exactly one.
AppendedOne(fn, args) ==
    /\ Len(calls') = Len(calls) + 1
    /\ SubSeq(calls', 1, Len(calls)) = calls
    /\ calls'[Len(calls')].fn = fn
    /\ calls'[Len(calls')].args = args

\* C1: a property update whose currentTutorialStep differs from the previous
\* one leaves the expanded step equal to the new currentTutorialStep, whatever
\* step was expanded before (one set by a click just before included).
C1_StepChangeResetsOpenSection ==
    [][ currentTutorialStep' # currentTutorialStep
            => /\ lastEvent'.handler = "componentWillReceiveProps"
               /\ currentlyOpenSectionId' = currentTutorialStep'
               /\ currentlyOpenSectionId' = lastEvent'.sectionId ]_vars

\* C1 witness: the step changed right after a click had expanded a third step,
\* and the expanded step is the new one.
C1_Witness ==
    /\ lastEvent.handler = "componentWillReceiveProps"
    /\ prevHandler = "onSummaryClick"
    /\ lastEvent.step # lastEvent.sectionId
    /\ lastEvent.open # lastEvent.step
    /\ lastEvent.open # lastEvent.sectionId
    /\ currentTutorialStep = lastEvent.sectionId
    /\ currentlyOpenSectionId = lastEvent.sectionId

\* C2: a click on the summary of step X leaves X expanded, and the expanded
\* step changes only by a summary click or by a property update that changes
\* currentTutorialStep; an update that keeps currentTutorialStep keeps it.
C2_ClickExpandsAndPersists ==
    /\ [](lastEvent.handler = "onSummaryClick"
              => currentlyOpenSectionId = lastEvent.sectionId)
    /\ [][ currentlyOpenSectionId' # currentlyOpenSectionId
               => \/ lastEvent'.handler = "onSummaryClick"
                  \/ currentTutorialStep' # currentTutorialStep ]_vars

\* C2 witness: a completed step was expanded by a click and is still expanded
\* after a property update that kept currentTutorialStep.
C2_Witness ==
    /\ lastEvent.handler = "componentWillReceiveProps"
    /\ prevHandler = "onSummaryClick"
    /\ lastEvent.step = lastEvent.sectionId
    /\ currentlyOpenSectionId = lastEvent.open
    /\ currentlyOpenSectionId # currentTutorialStep
    /\ isStepComplete(currentlyOpenSectionId)

\* C3: at most one of the six steps is rendered expanded.
C3_AtMostOneOpen ==
    Cardinality({ s \in ValidTutorialStep : detailsOpen(s) }) <= 1

\* C3 witness: after a click, one step is expanded and it is not the current one.
C3_Witness ==
    /\ lastEvent.handler = "onSummaryClick"
    /\ currentlyOpenSectionId # currentTutorialStep
    /\ { s \in ValidTutorialStep : detailsOpen(s) } = { lastEvent.sectionId }

\* C4: a step is complete exactly when its place in the canonical sequence is
\* strictly before that of currentTutorialStep, whichever step is expanded.
C4_CompleteIffBefore ==
    \A step \in ValidTutorialStep :
        isStepComplete(step) <=> Position(step) < Position(currentTutorialStep)

\* C4 witness: a middle step is current, a later one is expanded, two steps
\* are complete.
C4_Witness ==
    /\ currentTutorialStep = "EditFile"
    /\ currentlyOpenSectionId = "PushBranch"
    /\ { s \in ValidTutorialStep : isStepComplete(s) } = { "PickEditor", "CreateBranch" }

\* C5: exactly one step is next to do, the current one, and no step is both
\* complete and next to do.
C5_ExactlyOneNextTodo ==
    /\ { s \in ValidTutorialStep : isStepNextTodo(s) } = { currentTutorialStep }
    /\ Cardinality({ s \in ValidTutorialStep : isStepNextTodo(s) }) = 1
    /\ \A s \in ValidTutorialStep : ~ (isStepComplete(s) /\ isStepNextTodo(s))

\* C5 witness: the step before the last is current after an update, with
\* four steps complete and one next to do.
C5_Witness ==
    /\ lastEvent.handler = "componentWillReceiveProps"
    /\ currentTutorialStep = "PushBranch"
    /\ Cardinality({ s \in ValidTutorialStep : isStepComplete(s) }) = 4
    /\ isStepNextTodo("PushBranch")

\* C6: the Skip link of a step's summary shows exactly when the step is
\* PickEditor or OpenPullRequest, it is the expanded step and it is the
\* current step; the other four steps never show one.
C6_SkipLinkVisibility ==
    \A s \in ValidTutorialStep :
        shouldShowSkipLink(s) <=>
            /\ s \in { "PickEditor", "OpenPullRequest" }
            /\ currentlyOpenSectionId = s
            /\ currentTutorialStep = s

\* C6 witness: the user clicked OpenPullRequest, the current step, and its
\* Skip link shows.
C6_Witness ==
    /\ lastEvent.handler = "onSummaryClick"
    /\ lastEvent.open # "OpenPullRequest"
    /\ shouldShowSkipLink("OpenPullRequest")
    /\ ~ shouldShowSkipLink("PickEditor")

\* C9: each step shows the completed icon if it is before the current step,
\* the highlighted icon with its 1-based number if it is the current step,
\* and the plain icon with its 1-based number if it is after it; exactly one
\* step is highlighted, whichever step is expanded.
C9_StatusIcons ==
    /\ \A s \in ValidTutorialStep :
           LET icon == renderTutorialStepIcon(s)
           IN  /\ Position(s) < Position(currentTutorialStep)
                      => icon.className = "green-circle"
               /\ s = currentTutorialStep
                      => icon = [ className |-> "blue-circle",
                                  stepNumber |-> Position(s) ]
               /\ Position(s) > Position(currentTutorialStep)
                      => icon = [ className |-> "empty-circle",
                                  stepNumber |-> Position(s) ]
    /\ Cardinality({ s \in ValidTutorialStep :
                       renderTutorialStepIcon(s).className = "blue-circle" }) = 1

\* C9 witness: the third step is current and highlighted with 3, a completed
\* step is expanded, and the last step is plain with 6.
C9_Witness ==
    /\ currentTutorialStep = "EditFile"
    /\ currentlyOpenSectionId = "PickEditor"
    /\ renderTutorialStepIcon("PickEditor").className = "green-circle"
    /\ renderTutorialStepIcon("EditFile").stepNumber = 3
    /\ renderTutorialStepIcon("OpenPullRequest") =
           [ className |-> "empty-circle", stepNumber |-> 6 ]

\* C10: a skipPickEditorTutorialStep command is dispatched only while
\* PickEditor is both the current and the expanded step, and a
\* skipCreatePullRequestTutorialStep command only while OpenPullRequest is.
C10_SkipOnlyForCurrentOpenStep ==
    [][ \A i \in (Len(calls) + 1)..Len(calls') :
            /\ calls'[i].fn = "skipPickEditorTutorialStep"
                   => /\ currentTutorialStep = "PickEditor"
                      /\ currentlyOpenSectionId = "PickEditor"
            /\ calls'[i].fn = "skipCreatePullRequestTutorialStep"
                   => /\ currentTutorialStep = "OpenPullRequest"
                      /\ currentlyOpenSectionId = "OpenPullRequest" ]_vars

\* C10 witness: the Skip link dispatched the pull request skip, and then the
\* "I have an editor" link dispatched the editor skip.
C10_Witness ==
    /\ Len(calls) = 2
    /\ calls[1].fn = "skipCreatePullRequestTutorialStep"
    /\ calls[2].fn = "skipPickEditorTutorialStep"
    /\ lastEvent.handler = "skipEditorInstall"
    /\ lastEvent.target = "LinkButton"
    /\ lastEvent.step = "PickEditor"
    /\ lastEvent.open = "PickEditor"

\* C7: a checkbox toggle issues exactly one setStatsOptOut command, with the
\* negation of the new checked value, and changes nothing of the component.
C7_ToggleIssuesNegatedValue ==
    [][ lastEvent'.handler = "onChange"
            => /\ AppendedOne("setStatsOptOut", << ~ lastEvent'.checked >>)
               /\ lastEvent'.checked = ~ isChecked(checkboxValue)
               /\ optOut' = optOut ]_vars

\* C7 witness: a toggle to unchecked issued true, and a later toggle to
\* checked issued false.
C7_Witness ==
    /\ Len(calls) = 2
    /\ calls[1].fn = "setStatsOptOut"
    /\ calls[1].args = << TRUE >>
    /\ calls[2].fn = "setStatsOptOut"
    /\ calls[2].args = << FALSE >>
    /\ lastEvent.handler = "onChange"
    /\ lastEvent.checked = TRUE

\* C8: submitting calls done once and nothing else; canceling calls advance
\* once, with ConfigureGit, and nothing else; for either value of the flag.
C8_SubmitAndCancel ==
    [][ /\ lastEvent'.handler = "finish"
            => /\ AppendedOne("done", << >>)
               /\ optOut' = optOut
        /\ lastEvent'.handler = "cancel"
            => /\ AppendedOne("advance", << "ConfigureGit" >>)
               /\ optOut' = optOut ]_vars

\* C8 witness: after a toggle, a cancel called advance and a submit called done.
C8_Witness ==
    /\ Len(calls) = 3
    /\ calls[1].fn = "setStatsOptOut"
    /\ calls[2].fn = "advance"
    /\ calls[2].args = << "ConfigureGit" >>
    /\ calls[3].fn = "done"
    /\ lastEvent.handler = "finish"
    /\ optOut

====
